---- MODULE Spec2Model ----
(***************************************************************************)
(* Hybrid retrieval (agent/retriever.py, agent/ranker.py,                  *)
(* services/redis_client.py), the answer pipeline (agent/pipeline.py) and  *)
(* the recency re-ranker (ranker.rerank_by_year) of the article            *)
(* question-answering service; the knowledge graph build                   *)
(* (build_knowledge_graph.py, app/graph.py), the graph endpoints           *)
(* (services/graph_service.py, routers/graph.py), the lazily built         *)
(* singletons behind deps.get_pipeline_dependency, and the stores that     *)
(* ingestion writes (extract/enrichment_pipeline.py,                       *)
(* services/mongo_data.py, services/vector_db.py).                         *)
(*                                                                         *)
(* Scores are Python floats in the code.  Here they are fixed-point        *)
(* integers counted in 1/Unit (Unit = 1000), and "/" is integer division.  *)
(***************************************************************************)
EXTENDS Integers, Sequences, FiniteSets, TLC

VARIABLES
    retriever_built,      \* the module singleton _retriever is not None
    use_fallback,         \* Retriever.use_fallback
    fallback_articles,    \* Retriever._fallback_articles
    fallback_embeddings,  \* Retriever._fallback_embeddings (<<>> models None)
    tfidf_ready,          \* _tfidf_vectorizer and _tfidf_matrix is not None
    call,                 \* the last Retriever.retrieve call and what it returned
    response,             \* the last AgentPipeline.answer call and what it returned
    rank,                 \* the list handed to rerank_by_year and what it returned
    collection,           \* the documents of the MongoDB collection, in find() order
    builder,              \* the ArticleGraphBuilder: self.kg and self.stats
    build,                \* where build_graph / save_graph stand, and what they did
    files,                \* the *.gpickle files of graphs/, oldest first
    service,              \* the last GraphService created and its last query
    requests,             \* the in-flight requests resolving get_pipeline()
    singletons,           \* the module globals _pipeline and _retriever
    stores                \* the MongoDB and ChromaDB collections ingestion writes

vars == <<retriever_built, use_fallback, fallback_articles, fallback_embeddings,
          tfidf_ready, call, response, rank, collection, builder, build, files,
          service, requests, singletons, stores>>

retrieverVars == <<retriever_built, use_fallback, fallback_articles,
                   fallback_embeddings, tfidf_ready>>

graphVars == <<collection, builder, build, files, service>>
singletonVars == <<requests, singletons>>
ingestVars == <<stores>>

----------------------------------------------------------------------------
(* Bounds of the model *)

\* longest result list a search backend returns
MaxRes == 2
\* largest top_k asked for
MaxTopK == 2
\* most sample files in the fallback corpus
MaxCorpus == 2
\* longest list handed to rerank_by_year
MaxDocs == 2

----------------------------------------------------------------------------
(* Values *)

\* fixed-point scale: the float 1.0
Unit == 10 * 100

\* article ids in the Redis index, and in the sample files
Ids == {"a", "b", "c"}
CorpusIds == {"a", "b"}

\* questions, and the title+abstract texts of the sample articles
Questions == {"cells", "xyzzy"}
Texts == {"", "cells", "stem cells"}

\* cosine distances the KNN query reports (0.2 and 0.9)
Dists == {Unit \div 5, (9 * Unit) \div 10}

\* a year field: an int, None, or no "year" key at all
Year(n) == [k |-> "int", v |-> n]
YearNone == [k |-> "None", v |-> 0]
YearAbsent == [k |-> "absent", v |-> 0]

\* the year stored with each indexed article
IndexYear(id) ==
    CASE id = "a" -> Year(1910)
      [] id = "b" -> Year(2020)
      [] OTHER -> Year(1995)

\* an article without the "embedding" key
NoEmbedding == <<>>
EmbVecs == {<<5, 0>>, <<-3, -4>>}

----------------------------------------------------------------------------
(* Sequences *)

Range(s) == {s[i] : i \in DOMAIN s}

SeqsUpTo(S, n) == UNION {[1..k -> S] : k \in 0..n}

MinOf(S) == CHOOSE x \in S : \A y \in S : x <= y
MaxOf(S) == CHOOSE x \in S : \A y \in S : x >= y

\* Python's s[:n] for n >= 0
Take(s, n) == SubSeq(s, 1, IF n < Len(s) THEN n ELSE Len(s))

\* the iteration orders of a Python set
OrdersOf(S) ==
    {o \in [1..Cardinality(S) -> S] : \A x \in S : \E i \in DOMAIN o : o[i] = x}

\* list.sort(key=lambda x: x.get("score", 0.0), reverse=True): stable, so equal
\* scores keep their order
RECURSIVE SortByScoreDesc(_)
SortByScoreUnsorted(s) == s
SortByScoreDesc(s) ==
    IF s = <<>> THEN <<>>
    ELSE LET rest == SortByScoreDesc(SubSeq(s, 1, Len(s) - 1))
             x == s[Len(s)]
             k == Cardinality({i \in DOMAIN rest : rest[i].score >= x.score})
         IN SubSeq(rest, 1, k) \o <<x>> \o SubSeq(rest, k + 1, Len(rest))

----------------------------------------------------------------------------
(* External services, by what they return *)

\* EmbeddingsService.get_embedding / get_embeddings_batch: the vector of a text
Embed(text) ==
    CASE text = "cells" -> <<3, 4>>
      [] text = "xyzzy" -> <<5, 0>>
      [] text = "stem cells" -> <<4, 3>>
      [] OTHER -> <<0, 5>>

Dot(u, v) == u[1] * v[1] + u[2] * v[2]
Norm(u) == CHOOSE n \in 0..Dot(u, u) : n * n = Dot(u, u)

\* sklearn cosine_similarity of two dense vectors, in [-1, 1]
CosSim(u, v) ==
    IF Norm(u) = 0 \/ Norm(v) = 0 THEN 0
    ELSE (Dot(u, v) * Unit) \div (Norm(u) * Norm(v))

\* sklearn cosine_similarity of the TF-IDF rows of a question and a text, in [0, 1]
TfidfSim(question, text) ==
    CASE text = "" -> 0
      [] text = question -> Unit
      [] text = "stem cells" /\ question = "cells" -> (7 * Unit) \div 10
      [] OTHER -> 0

----------------------------------------------------------------------------
(* agent/ranker.py: combine_scores *)

\* alpha=0.7 of the call in _retrieve_redis
Alpha == (7 * Unit) \div 10

\* the flat score 0.5 of a document present in the text result
TextPresenceScore == Unit \div 2

\* index of the first / last document of docs with this id
FirstIdx(docs, id) == MinOf({i \in DOMAIN docs : docs[i].id = id})
LastIdx(docs, id) == MaxOf({i \in DOMAIN docs : docs[i].id = id})

\* 1.0 - (raw - min) / (max - min), or 1.0 when every distance is the same
Normalize(raw, min_vec_score, max_vec_score) ==
    IF max_vec_score > min_vec_score
    THEN Unit - ((raw - min_vec_score) * Unit) \div (max_vec_score - min_vec_score)
    ELSE Unit

\* alpha * vec_score + (1 - alpha) * txt_score
HybridScore(alpha, vec_score, txt_score) ==
    (alpha * vec_score + (Unit - alpha) * txt_score) \div Unit

\* vector_docs: [id, score, year]; text_docs: [id, year]; order: the iteration
\* order of the set all_ids.  vector_scores[doc_id] is overwritten by a later
\* document of the same id; doc_data is the first document of that id.
combine_scores_unsorted(vector_docs, text_docs, alpha, order) ==
    LET raw == {d.score : d \in Range(vector_docs)}
        max_vec_score == IF raw = {} THEN Unit ELSE MaxOf(raw)
        min_vec_score == IF raw = {} THEN 0 ELSE MinOf(raw)
        vec_ids == {d.id : d \in Range(vector_docs)}
        txt_ids == {d.id : d \in Range(text_docs)}
        vector_scores ==
            [id \in vec_ids |->
                Normalize(vector_docs[LastIdx(vector_docs, id)].score,
                          min_vec_score, max_vec_score)]
        text_scores == [id \in txt_ids |-> TextPresenceScore]
        vec_score(id) == IF id \in vec_ids THEN vector_scores[id] ELSE 0
        txt_score(id) == IF id \in txt_ids THEN text_scores[id] ELSE 0
        doc_data(id) ==
            IF id \in vec_ids
            THEN vector_docs[FirstIdx(vector_docs, id)]
            ELSE text_docs[FirstIdx(text_docs, id)]
    IN [i \in DOMAIN order |->
            [id |-> order[i],
             year |-> doc_data(order[i]).year,
             score |-> HybridScore(alpha, vec_score(order[i]), txt_score(order[i]))]]

combine_scores(vector_docs, text_docs, alpha, order) ==
    SortByScoreDesc(combine_scores_unsorted(vector_docs, text_docs, alpha, order))

\* the set all_ids of combine_scores
AllIds(vector_docs, text_docs) ==
    {d.id : d \in Range(vector_docs)} \cup {d.id : d \in Range(text_docs)}

----------------------------------------------------------------------------
(* services/redis_client.py: what the search methods hand to the retriever *)

\* the documents the Redis server finds for FT.SEARCH (the search may also raise)
VecDocs == {[id |-> i, score |-> d, year |-> IndexYear(i)] : i \in Ids, d \in Dists}
TxtDocs == {[id |-> i, year |-> IndexYear(i)] : i \in Ids}
VecReplies == SeqsUpTo(VecDocs, MaxRes)
TxtReplies == SeqsUpTo(TxtDocs, MaxRes)

\* RedisClient.search_vector: an exception of the search is caught and [] returned
search_vector(reply, raises) == IF raises THEN <<>> ELSE reply

\* RedisClient.search_text: the same
search_text(reply, raises) == IF raises THEN <<>> ELSE reply

----------------------------------------------------------------------------
(* agent/retriever.py *)

\* a sample file: an article with or without the "embedding" key
Articles ==
    [id : CorpusIds, text : Texts, year : {Year(2023)},
     embedding : EmbVecs \cup {NoEmbedding}]

\* what one retrieve call did: the tiers it went through, what each backend
\* gave, which calls raised, the list returned, and whether retrieve itself raised
NoCall ==
    [tiers |-> <<>>, question |-> "", top_k |-> 0, embed_failed |-> FALSE,
     vec_failed |-> FALSE, txt_failed |-> FALSE, vector_results |-> <<>>,
     text_results |-> <<>>, results |-> <<>>, raised |-> FALSE]

\* Retriever._load_fallback_data: the cache built from the sample files.  With no
\* file (or no samples folder) nothing is cached.  When one article lacks its
\* embedding a batch is asked for and written over every article; when that call
\* raises the articles stay as they are.  The matrix has one row per article
\* that has an embedding, and is None (<<>>) when there is none.  The TF-IDF
\* fit raises on an empty vocabulary, which leaves _tfidf_matrix None.
load_articles(samples, batch_raises) ==
    IF (\E i \in DOMAIN samples : samples[i].embedding = NoEmbedding) /\ ~batch_raises
    THEN [i \in DOMAIN samples |->
            [samples[i] EXCEPT !.embedding = Embed(samples[i].text)]]
    ELSE samples

load_embeddings(articles) ==
    LET have == {i \in DOMAIN articles : articles[i].embedding # NoEmbedding}
        RECURSIVE rows(_)
        rows(n) ==
            IF n = 0 THEN <<>>
            ELSE IF n \in have THEN Append(rows(n - 1), articles[n].embedding)
            ELSE rows(n - 1)
    IN rows(Len(articles))

load_tfidf(articles) ==
    articles # <<>> /\ \E i \in DOMAIN articles : articles[i].text # ""

\* a dict with the key "score" set
WithScore(article, score) ==
    [k \in DOMAIN article \cup {"score"} |-> IF k = "score" THEN score ELSE article[k]]

\* the result entry of a scored article
ScoredEntry(article, score) ==
    [id |-> article.id, year |-> article.year, score |-> score]

\* art = self._fallback_articles[idx]; art["score"] = float(score): the score
\* written to the cached dict itself
score_in_place(article, score) ==
    [cached |-> WithScore(article, score), art |-> ScoredEntry(article, score)]

\* art = self._fallback_articles[idx].copy(); art["score"] = float(score): the
\* cached dict, and the copy that carries the score
score_copy(article, score) ==
    [cached |-> article, art |-> ScoredEntry(article, score)]

\* the loop of the vector part of _retrieve_fallback: row idx of the matrix
\* scores article idx
fallback_scored(articles, embeddings, question) ==
    LET n == IF Len(embeddings) < Len(articles) THEN Len(embeddings) ELSE Len(articles)
    IN [i \in 1..n |->
            score_copy(articles[i], CosSim(Embed(question), embeddings[i]))]

\* the vector part of _retrieve_fallback: the list results
fallback_vector_results(articles, embeddings, question) ==
    LET scored == fallback_scored(articles, embeddings, question)
    IN [i \in DOMAIN scored |-> scored[i].art]

\* self._fallback_articles after _retrieve_fallback: the loop of the vector
\* part is the only place that writes a dict taken from the cache, and it runs
\* when the matrix is there and neither get_embedding nor cosine_similarity
\* raised
fallback_articles_after(articles, embeddings, question, fail) ==
    LET scored == fallback_scored(articles, embeddings, question)
    IN IF articles = <<>> \/ embeddings = <<>> \/ fail \in {"embedding", "vector"}
       THEN articles
       ELSE [i \in DOMAIN articles |->
                IF i \in DOMAIN scored THEN scored[i].cached ELSE articles[i]]

\* the TF-IDF part of _retrieve_fallback: one entry per cached article
fallback_text_results(articles, question) ==
    [i \in DOMAIN articles |->
        [id |-> articles[i].id, score |-> TfidfSim(question, articles[i].text)]]

\* step 3 of _retrieve_fallback: 0.7 * vec_score + 0.3 * txt_score, the text
\* score of an id being the one of the last text result of that id
fallback_blend(results, text_results) ==
    IF results # <<>> /\ text_results # <<>>
    THEN [i \in DOMAIN results |->
            LET id == results[i].id
                txt_score ==
                    IF \E j \in DOMAIN text_results : text_results[j].id = id
                    THEN text_results[LastIdx(text_results, id)].score
                    ELSE 0
            IN [results[i] EXCEPT
                   !.score = (7 * results[i].score + 3 * txt_score) \div 10]]
    ELSE results

\* the try block of _retrieve_fallback.  fail names the call that raises, if
\* any: "embedding" (get_embedding), "vector" (cosine_similarity on the matrix),
\* "text" (the TF-IDF transform); raised says that the block was left by an
\* exception.
fallback_try(articles, embeddings, tfidf, question, top_k, fail) ==
    LET base == [NoCall EXCEPT !.tiers = <<"fallback">>, !.question = question,
                               !.top_k = top_k]
        vec_on == embeddings # <<>>
        results == IF vec_on
                   THEN fallback_vector_results(articles, embeddings, question)
                   ELSE <<>>
        text_results == IF tfidf THEN fallback_text_results(articles, question)
                        ELSE <<>>
    IN IF vec_on /\ fail = "embedding"
       THEN [base EXCEPT !.embed_failed = TRUE, !.raised = TRUE]
       ELSE IF vec_on /\ fail = "vector"
       THEN [base EXCEPT !.vec_failed = TRUE, !.raised = TRUE]
       ELSE IF tfidf /\ fail = "text"
       THEN [base EXCEPT !.txt_failed = TRUE, !.raised = TRUE,
                         !.vector_results = results]
       ELSE [base EXCEPT
               !.vector_results = results,
               !.text_results = text_results,
               !.results =
                   Take(SortByScoreDesc(fallback_blend(results, text_results)), top_k)]

\* Retriever._retrieve_fallback: [] for an empty cache, else the try block, and
\* "except Exception: return []"
retrieve_fallback(articles, embeddings, tfidf, question, top_k, fail) ==
    LET r == fallback_try(articles, embeddings, tfidf, question, top_k, fail)
    IN IF articles = <<>>
       THEN [NoCall EXCEPT !.tiers = <<"fallback">>, !.question = question,
                           !.top_k = top_k]
       ELSE IF r.raised THEN [r EXCEPT !.raised = FALSE, !.results = <<>>]
       ELSE r

\* the try block of _retrieve_redis.  get_embedding may raise; the searches
\* never do (search_vector and search_text return [] instead).
redis_try(question, top_k, embed_raises, vec, txt, order) ==
    LET base == [NoCall EXCEPT !.tiers = <<"redis">>, !.question = question,
                               !.top_k = top_k]
        vector_results == search_vector(vec.docs, vec.raises)
        text_results == search_text(txt.docs, txt.raises)
        combined == combine_scores(vector_results, text_results, Alpha, order)
    IN IF embed_raises THEN [base EXCEPT !.embed_failed = TRUE, !.raised = TRUE]
       ELSE [base EXCEPT
               !.vec_failed = vec.raises,
               !.txt_failed = txt.raises,
               !.vector_results = vector_results,
               !.text_results = text_results,
               !.results = Take(combined, top_k)]

\* Retriever._retrieve_redis: the try block and "except Exception: return []"
retrieve_redis_reraise(question, top_k, embed_raises, vec, txt, order) ==
    redis_try(question, top_k, embed_raises, vec, txt, order)

retrieve_redis(question, top_k, embed_raises, vec, txt, order) ==
    LET r == redis_try(question, top_k, embed_raises, vec, txt, order)
    IN IF r.raised THEN [r EXCEPT !.raised = FALSE, !.results = <<>>] ELSE r

\* what the two searches of one Redis retrieval can do
VecOutcomes ==
    {[raises |-> FALSE, docs |-> r] : r \in VecReplies}
        \cup {[raises |-> TRUE, docs |-> <<>>]}
TxtOutcomes ==
    {[raises |-> FALSE, docs |-> r] : r \in TxtReplies}
        \cup {[raises |-> TRUE, docs |-> <<>>]}
FallbackFailures == {"none", "embedding", "vector", "text"}

----------------------------------------------------------------------------
(* graph.py: KnowledgeGraph over networkx.Graph *)

\* A name is a Python str, modelled as the sequence of its characters.
JaneDoe == <<"J", " ", "D">>
JaneDoeSpaced == <<" ", "j", " ", " ", "d">>
JohnRoe == <<"J", " ", "R">>
MIT == <<"M", "I", "T">>
MusMusculus == <<"M", "u", "s">>
Nature == <<"N">>
\* a whitespace-only str, and a mention that is not a str (a non-empty dict of the
\* extraction output), which has no strip()
Blank == <<" ", " ">>
NotAStr == <<"dict">>

\* str.lower on the characters the names use
Lower(c) ==
    CASE c = "J" -> "j" [] c = "D" -> "d" [] c = "R" -> "r" [] c = "M" -> "m"
      [] c = "I" -> "i" [] c = "T" -> "t" [] c = "N" -> "n" [] OTHER -> c

\* the positions " ".join(name.strip().split()) keeps: every non-blank, and the
\* first blank of a run that has a non-blank on both sides
KeptPositions(name) ==
    {i \in DOMAIN name :
        \/ name[i] # " "
        \/ /\ i > 1 /\ name[i - 1] # " "
           /\ \E j \in (i + 1)..Len(name) : name[j] # " "}

\* ArticleGraphBuilder._normalize_name
normalize_name(name) ==
    IF name = <<>> THEN <<>>
    ELSE LET K == KeptPositions(name)
             at(k) == CHOOSE i \in K : Cardinality({j \in K : j <= i}) = k
         IN [k \in 1..Cardinality(K) |-> Lower(name[at(k)])]

\* f"{type}:{normalized}"
VertexId(type, name) == <<type, ":">> \o normalize_name(name)

\* KnowledgeGraph.__init__: nodes in insertion order, each with its attributes;
\* an edge is a record of the adjacency, u and v as first added
EmptyGraph == [nodes |-> <<>>, edges |-> {}]

NodeIds(g) == {g.nodes[i].id : i \in DOMAIN g.nodes}

\* the position of entity_id among the nodes, 0 when entity_id not in graph
NodeIndex(g, entity_id) ==
    IF entity_id \in NodeIds(g)
    THEN CHOOSE i \in DOMAIN g.nodes : g.nodes[i].id = entity_id
    ELSE 0

\* KnowledgeGraph.get_entity: the node's attribute dict, or None (<<>>)
get_entity(g, entity_id) ==
    IF entity_id \in NodeIds(g) THEN <<g.nodes[NodeIndex(g, entity_id)]>> ELSE <<>>

\* KnowledgeGraph.add_entity
add_entity(g, entity_id, type, name, experiment_ids) ==
    IF entity_id \notin NodeIds(g)
    THEN [g EXCEPT !.nodes = Append(@, [id |-> entity_id, type |-> type,
                                         name |-> name,
                                         experiment_ids |-> experiment_ids])]
    ELSE g

\* networkx Graph.has_edge: the adjacency is symmetric
Joins(e, u, v) == (e.u = u /\ e.v = v) \/ (e.u = v /\ e.v = u)
has_edge(g, u, v) == \E e \in g.edges : Joins(e, u, v)

\* KnowledgeGraph.add_relationship
add_relationship(g, entity1_id, entity2_id, weight) ==
    IF entity1_id \notin NodeIds(g) \/ entity2_id \notin NodeIds(g) THEN g
    ELSE IF ~has_edge(g, entity1_id, entity2_id)
    THEN [g EXCEPT !.edges = @ \cup {[u |-> entity1_id, v |-> entity2_id,
                                      weight |-> weight]}]
    ELSE [g EXCEPT !.edges =
             {IF Joins(e, entity1_id, entity2_id)
              THEN [e EXCEPT !.weight = @ + 1] ELSE e : e \in @}]

\* KnowledgeGraph.get_relationship: the edge's weight, 0 when there is no edge
EdgeWeight(g, u, v) ==
    IF has_edge(g, u, v)
    THEN (CHOOSE e \in g.edges : Joins(e, u, v)).weight
    ELSE 0

\* networkx Graph.neighbors and Graph.degree (a self-loop counts twice)
Neighbors(g, n) ==
    {e.v : e \in {x \in g.edges : x.u = n}} \cup {e.u : e \in {x \in g.edges : x.v = n}}
Degree(g, n) ==
    Cardinality({e \in g.edges : e.u = n /\ e.v # n})
    + Cardinality({e \in g.edges : e.v = n /\ e.u # n})
    + 2 * Cardinality({e \in g.edges : e.u = n /\ e.v = n})

\* networkx Graph.subgraph(nodes).copy(): the induced subgraph, nodes in the
\* order of the graph
SelectNodes(g, keep) == SelectSeq(g.nodes, LAMBDA nd : nd.id \in keep)
Subgraph(g, keep) ==
    [nodes |-> SelectNodes(g, keep),
     edges |-> {e \in g.edges : e.u \in keep /\ e.v \in keep}]

----------------------------------------------------------------------------
(* build_knowledge_graph.py: ArticleGraphBuilder *)

\* self.stats of ArticleGraphBuilder.__init__
NoStats ==
    [total_articles |-> 0, authors |-> 0, institutions |-> 0, organisms |-> 0,
     journals |-> 0, edges |-> 0]

\* ArticleGraphBuilder.__init__: self.kg = KnowledgeGraph()
NewBuilder == [kg |-> EmptyGraph, stats |-> NoStats]

\* the stats key a vertex type counts under
StatsKey(vertex_type) ==
    CASE vertex_type = "author" -> "authors"
      [] vertex_type = "institution" -> "institutions"
      [] vertex_type = "organism" -> "organisms"
      [] OTHER -> "journals"

\* _add_or_update_vertex appending experiment_id without the membership test
add_or_update_vertex_always_append(b, vertex_id, vertex_type, experiment_id, original_name) ==
    LET i == NodeIndex(b.kg, vertex_id)
    IN IF i = 0
       THEN [kg |-> add_entity(b.kg, vertex_id, vertex_type,
                               IF original_name # <<>> THEN original_name
                               ELSE vertex_id,
                               <<experiment_id>>),
             stats |-> [b.stats EXCEPT ![StatsKey(vertex_type)] = @ + 1]]
       ELSE [b EXCEPT !.kg.nodes[i].experiment_ids = Append(@, experiment_id)]

\* ArticleGraphBuilder._add_or_update_vertex
add_or_update_vertex(b, vertex_id, vertex_type, experiment_id, original_name) ==
    LET i == NodeIndex(b.kg, vertex_id)
    IN IF i = 0
       THEN [kg |-> add_entity(b.kg, vertex_id, vertex_type,
                               IF original_name # <<>> THEN original_name
                               ELSE vertex_id,
                               <<experiment_id>>),
             stats |-> [b.stats EXCEPT ![StatsKey(vertex_type)] = @ + 1]]
       ELSE IF experiment_id \notin Range(b.kg.nodes[i].experiment_ids)
       THEN [b EXCEPT !.kg.nodes[i].experiment_ids = Append(@, experiment_id)]
       ELSE b

\* the truthy mentions of an article in the order _process_article visits them:
\* authors, institutions, organisms, journal
TypedMentions(type, names) ==
    LET kept == SelectSeq(names, LAMBDA name : name # <<>>)
    IN [i \in DOMAIN kept |-> [type |-> type, name |-> kept[i]]]
TruthyMentions(article) ==
    TypedMentions("author", article.authors)
    \o TypedMentions("institution", article.institutions)
    \o TypedMentions("organism", article.organisms)
    \o TypedMentions("journal", <<article.journal>>)

\* _normalize_name raises AttributeError on a truthy mention that is not a str,
\* which ends _process_article there
Raises(article) ==
    \E i \in DOMAIN TruthyMentions(article) : TruthyMentions(article)[i].name = NotAStr

\* the mentions _process_article gets to: all of them, or those before the
\* one that raises
Mentions(article) ==
    LET ms == TruthyMentions(article)
    IN IF Raises(article)
       THEN SubSeq(ms, 1, MinOf({i \in DOMAIN ms : ms[i].name = NotAStr}) - 1)
       ELSE ms

\* article_vertices: one id per mention, repeated when a mention repeats
ArticleVertices(article) ==
    LET ms == Mentions(article)
    IN [i \in DOMAIN ms |-> VertexId(ms[i].type, ms[i].name)]

\* the vertex calls of _process_article, mention by mention
RECURSIVE AddVertices(_, _, _)
AddVertices(b, mentions, experiment_id) ==
    IF mentions = <<>> THEN b
    ELSE LET m == Head(mentions)
         IN AddVertices(add_or_update_vertex(b, VertexId(m.type, m.name), m.type,
                                             experiment_id, m.name),
                        Tail(mentions), experiment_id)

\* for i, v1 in enumerate(article_vertices): for v2 in article_vertices[i+1:]
VertexPairs(vs) ==
    LET idx == {<<i, j>> \in (DOMAIN vs) \X (DOMAIN vs) : i < j}
        before(p, q) == p[1] < q[1] \/ (p[1] = q[1] /\ p[2] <= q[2])
        at(k) == CHOOSE p \in idx : Cardinality({q \in idx : before(q, p)}) = k
    IN [k \in 1..Cardinality(idx) |-> <<vs[at(k)[1]], vs[at(k)[2]]>>]

\* the add_relationship calls of _process_article, pair by pair
RECURSIVE AddEdges(_, _)
AddEdges(b, pairs) ==
    IF pairs = <<>> THEN b
    ELSE AddEdges([kg |-> add_relationship(b.kg, Head(pairs)[1], Head(pairs)[2], 1),
                   stats |-> [b.stats EXCEPT !.edges = @ + 1]],
                  Tail(pairs))

\* ArticleGraphBuilder._process_article, and the "except Exception: continue"
\* of build_graph around it: an article that raises leaves the vertices added
\* before the exception and gets no edge.  experiment_id <<>> models a missing,
\* None or empty experiment_id.
process_article(b, article) ==
    IF article.experiment_id = <<>> THEN b
    ELSE LET counted == [b EXCEPT !.stats.total_articles = @ + 1]
             withVertices == AddVertices(counted, Mentions(article),
                                         article.experiment_id)
         IN IF Raises(article) THEN withVertices
            ELSE AddEdges(withVertices, VertexPairs(ArticleVertices(article)))

\* the loop of ArticleGraphBuilder.build_graph over collection.find()
RECURSIVE ProcessAll(_, _)
ProcessAll(b, articles) ==
    IF articles = <<>> THEN b
    ELSE ProcessAll(process_article(b, Head(articles)), Tail(articles))

----------------------------------------------------------------------------
(* The graph build as a state machine *)

\* most articles in the MongoDB collection
MaxArticles == 2
\* most calls of build_graph on one ArticleGraphBuilder
MaxBuilds == 2

\* the experiment_id of the i-th document of the collection
ExperimentId(i) == <<"PMC", i>>

AuthorLists == {<<>>, <<JaneDoe>>, <<JaneDoe, JohnRoe>>, <<JaneDoe, JaneDoeSpaced>>}
Journals == {<<>>, Nature}

\* article PMC1 of the end-to-end scenario, as the i-th document
ScenarioArticle(experiment_id) ==
    [experiment_id |-> experiment_id, authors |-> <<JaneDoe, JohnRoe>>,
     institutions |-> <<MIT>>, organisms |-> <<MusMusculus>>, journal |-> Nature]

\* an article with an empty and a whitespace-only author, a whitespace-only
\* institution and a whitespace-only journal
BlankArticle(experiment_id) ==
    [experiment_id |-> experiment_id, authors |-> <<JaneDoe, <<>>, Blank>>,
     institutions |-> <<Blank>>, organisms |-> <<>>, journal |-> Blank]

\* an article whose organisms hold an entry that is not a str
BrokenArticle(experiment_id) ==
    [experiment_id |-> experiment_id, authors |-> <<JaneDoe, JohnRoe>>,
     institutions |-> <<>>, organisms |-> <<NotAStr>>, journal |-> Nature]

\* the documents the i-th position of the collection can hold under its own
\* experiment_id: any authors and journal, the scenario's article with its
\* institution and organism, the article with blank mentions or the one with
\* a mention that is not a str; or a document without experiment_id
ArticlesAt(i) ==
    [experiment_id : {ExperimentId(i)}, authors : AuthorLists,
     institutions : {<<>>}, organisms : {<<>>}, journal : Journals]
    \cup {ScenarioArticle(ExperimentId(i)), ScenarioArticle(<<>>),
          BlankArticle(ExperimentId(i)), BrokenArticle(ExperimentId(i))}

\* the collections of exactly n documents, and of at most MaxArticles
RECURSIVE CorporaOf(_)
CorporaOf(n) ==
    IF n = 0 THEN {<<>>}
    ELSE {Append(c, a) : c \in CorporaOf(n - 1), a \in ArticlesAt(n)}
Corpora == UNION {CorporaOf(n) : n \in 0..MaxArticles}

\* build_graph has not been called: processed lists the articles
\* _process_article went through, graphs the graph each build_graph returned
NoBuild ==
    [pc |-> "idle", cursor |-> 0, builds |-> 0, processed |-> <<>>,
     graphs |-> <<>>]
\* no GraphService was created: status is "loaded" once __init__ returned,
\* "not_found" or "load_error" when it raised; during and snapshots tell where
\* the build stood and how many complete files graphs/ held at that moment;
\* view is its last query
NoView == [op |-> "none", args |-> <<>>, raised |-> FALSE, nodes |-> <<>>, edges |-> {}]
NoService ==
    [status |-> "none", graph |-> EmptyGraph, during |-> "idle", snapshots |-> 0,
     view |-> NoView]

\* nothing of the graph side has run
GraphIdle ==
    /\ collection = <<>>
    /\ builder = NewBuilder
    /\ build = NoBuild
    /\ files = <<>>
    /\ service = NoService

\* most requests in flight at once
MaxRequests == 2

\* a request that has not resolved its pipeline dependency yet; pipeline and
\* retriever are the instances it holds (0 for none)
NewRequest == [pc |-> "start", pipeline |-> 0, retriever |-> 0]

\* the module globals of pipeline.py and retriever.py: 0 models None, an
\* instance is named by the number of its constructor call, pipeline_retriever
\* is self.retriever of the pipeline _pipeline names, and the *_built fields
\* count the constructor calls
NoSingletons ==
    [pipeline |-> 0, pipeline_retriever |-> 0, retriever |-> 0,
     pipelines_built |-> 0, retrievers_built |-> 0]

\* no request is in flight
SingletonsIdle ==
    /\ requests = [r \in 1..MaxRequests |-> NewRequest]
    /\ singletons = NoSingletons

----------------------------------------------------------------------------
(* extract/enrichment_pipeline.py, services/mongo_data.py,
   services/vector_db.py: the stores ingestion writes *)

\* most ingestion calls of one run
MaxIngests == 3

\* an ArticleMetadata handed to the stores: its key and its abstract
Abstracts == {"", "cells", "stem cells"}
ArticleRecords == [experiment_id : {ExperimentId(1), ExperimentId(2)}, abstract : Abstracts]

\* the document of a collection under this key, as find_one gives it (0: None)
FindOne(coll, experiment_id) ==
    IF \E i \in DOMAIN coll : coll[i].experiment_id = experiment_id
    THEN MinOf({i \in DOMAIN coll : coll[i].experiment_id = experiment_id})
    ELSE 0

\* DatabaseManager.save_article on the collection with the unique index on
\* experiment_id: replace_one keeping created_at when find_one found the key,
\* insert_one otherwise
save_article(coll, article, now) ==
    LET existing == FindOne(coll, article.experiment_id)
        document == [experiment_id |-> article.experiment_id,
                     abstract |-> article.abstract, updated_at |-> now,
                     created_at |-> IF existing # 0 THEN coll[existing].created_at
                                    ELSE now]
    IN IF existing # 0 THEN [coll EXCEPT ![existing] = document]
       ELSE Append(coll, document)

\* MongoDataManager.add_document: ValueError without an abstract, else
\* insert_one of the dict with its embedding; the collection of this manager
\* has no index on experiment_id and the driver gives every dict a new _id
mongo_add_document(coll, document) ==
    IF document.abstract = ""
    THEN [coll |-> coll, raised |-> TRUE]
    ELSE [coll |-> Append(coll, [experiment_id |-> document.experiment_id,
                                 abstract |-> document.abstract,
                                 embedding |-> Embed(document.abstract)]),
          raised |-> FALSE]

\* Collection.upsert of ChromaDB: the entry of this id is replaced, or added
Upsert(coll, id, document) ==
    IF \E i \in DOMAIN coll : coll[i].id = id
    THEN [i \in DOMAIN coll |->
            IF coll[i].id = id THEN [id |-> id, document |-> document] ELSE coll[i]]
    ELSE Append(coll, [id |-> id, document |-> document])

\* str(uuid.uuid4()): an id no entry has
Uuid4(coll) == <<"uuid", Len(coll) + 1>>

\* VectorDBManager.add_document: upsert under a new uuid4
add_document(coll, document) == Upsert(coll, Uuid4(coll), document)

\* VectorDBManager.add_document_id: upsert under doc_id
add_document_id(coll, document, doc_id) == Upsert(coll, doc_id, document)

\* nothing was ingested: experiments is the collection of DatabaseManager,
\* articles the one of MongoDataManager, chroma the ChromaDB collection; log
\* lists the calls made, now counts the readings of datetime.utcnow()
NoStores ==
    [experiments |-> <<>>, articles |-> <<>>, chroma |-> <<>>, log |-> <<>>,
     now |-> 0]
StoresIdle == stores = NoStores

----------------------------------------------------------------------------
(* The retriever as a state machine *)

NoAnswer == [kind |-> "none", question |-> ""]

NoResponse ==
    [stages |-> <<>>, answer |-> NoAnswer, sources |-> <<>>, article |-> <<>>,
     synth_docs |-> <<>>, raised |-> FALSE]

NoRank ==
    [applied |-> 0, docs |-> <<>>, ranked |-> <<>>, raised |-> FALSE,
     year_weight |-> 0]

Init ==
    /\ retriever_built = FALSE
    /\ use_fallback = FALSE
    /\ fallback_articles = <<>>
    /\ fallback_embeddings = <<>>
    /\ tfidf_ready = FALSE
    /\ call = NoCall
    /\ response = NoResponse
    /\ rank = NoRank
    /\ GraphIdle
    /\ SingletonsIdle
    /\ StoresIdle

\* get_retriever / Retriever.__init__: the mode is fixed by is_connected() at
\* construction, and only the fallback mode loads the sample files
GetRetriever ==
    /\ ~retriever_built
    /\ \E connected \in BOOLEAN, samples \in SeqsUpTo(Articles, MaxCorpus),
          batch_raises \in BOOLEAN :
        LET articles == load_articles(samples, batch_raises)
        IN /\ use_fallback' = ~connected
           /\ fallback_articles' = IF connected THEN <<>> ELSE articles
           /\ fallback_embeddings' =
                  IF connected THEN <<>> ELSE load_embeddings(articles)
           /\ tfidf_ready' = IF connected THEN FALSE ELSE load_tfidf(articles)
    /\ retriever_built' = TRUE
    /\ UNCHANGED <<call, response, rank, graphVars, singletonVars, ingestVars>>

\* Retriever.retrieve(question, top_k)
retrieve(question, top_k, embed_raises, vec, txt, order, fail) ==
    IF use_fallback
    THEN retrieve_fallback(fallback_articles, fallback_embeddings, tfidf_ready,
                           question, top_k, fail)
    ELSE retrieve_redis(question, top_k, embed_raises, vec, txt, order)

RetrieveRedis ==
    /\ retriever_built /\ ~use_fallback /\ call = NoCall
    /\ \E question \in Questions, top_k \in 1..MaxTopK, embed_raises \in BOOLEAN,
          vec \in VecOutcomes, txt \in TxtOutcomes :
        /\ embed_raises => (vec.docs = <<>> /\ txt.docs = <<>>)
        /\ \E order \in OrdersOf(AllIds(vec.docs, txt.docs)) :
            call' = retrieve(question, top_k, embed_raises, vec, txt, order, "none")
    /\ UNCHANGED <<retrieverVars, response, rank, graphVars, singletonVars, ingestVars>>

RetrieveFallback ==
    /\ retriever_built /\ use_fallback /\ call = NoCall
    /\ \E question \in Questions, top_k \in 1..MaxTopK, fail \in FallbackFailures :
        /\ call' = retrieve(question, top_k, FALSE,
                            [raises |-> FALSE, docs |-> <<>>],
                            [raises |-> FALSE, docs |-> <<>>], <<>>, fail)
        /\ fallback_articles' =
               fallback_articles_after(fallback_articles, fallback_embeddings,
                                       question, fail)
    /\ UNCHANGED <<retriever_built, use_fallback, fallback_embeddings, tfidf_ready,
                   response, rank, graphVars, singletonVars, ingestVars>>

\* the caller takes the list
Return ==
    /\ call # NoCall
    /\ call' = NoCall
    /\ UNCHANGED <<retrieverVars, response, rank, graphVars, singletonVars, ingestVars>>

Next == GetRetriever \/ RetrieveRedis \/ RetrieveFallback \/ Return

Spec == Init /\ [][Next]_vars

----------------------------------------------------------------------------
(* agent/ranker.py: rerank_by_year *)

\* year_weight: float = 0.1
DefaultYearWeight == Unit \div 10
YearWeights == {0, DefaultYearWeight}

\* most applications of rerank_by_year to one list
MaxRerank == 2

\* a document handed to rerank_by_year: adjusted is <<>> while the dict has no
\* "adjusted_score" key, and <<x>> once it has
RankYears ==
    {YearAbsent, YearNone, Year(1800), Year(1900), Year(1990), Year(2024)}
RankScores == {(3 * Unit) \div 10, (35 * Unit) \div 100}
RankDocs ==
    [id : CorpusIds, score : RankScores, year : RankYears, adjusted : {<<>>}]

\* doc.get("year", 1900)
YearOrDefault(doc) == IF doc.year.k = "absent" THEN 1900 ELSE doc.year.v

\* (year - 1900) / (max_year - 1900) * year_weight, or 0.0 when max_year <= 1900
YearBonus(year, max_year, year_weight) ==
    IF max_year > 1900
    THEN ((year - 1900) * year_weight) \div (max_year - 1900)
    ELSE 0

\* sorted(docs, key=lambda x: x.get("adjusted_score", 0.0), reverse=True)
RECURSIVE SortByAdjustedDesc(_)
\* a descending sort that puts the later of two equal candidates first
SortByAdjustedTiesReversed(s) ==
    LET Before(i, j) ==
            \/ s[i].adjusted[1] > s[j].adjusted[1]
            \/ s[i].adjusted[1] = s[j].adjusted[1] /\ i > j
        p == CHOOSE q \in [DOMAIN s -> DOMAIN s] :
                \A a, b \in DOMAIN s : a < b => Before(q[a], q[b])
    IN [i \in DOMAIN s |-> s[p[i]]]
SortByAdjustedDesc(s) ==
    IF s = <<>> THEN <<>>
    ELSE LET rest == SortByAdjustedDesc(SubSeq(s, 1, Len(s) - 1))
             x == s[Len(s)]
             k == Cardinality({i \in DOMAIN rest :
                                  rest[i].adjusted[1] >= x.adjusted[1]})
         IN SubSeq(rest, 1, k) \o <<x>> \o SubSeq(rest, k + 1, Len(rest))

\* rerank_by_year with base_score read from a previous adjusted_score
rerank_by_year_accumulate(docs, year_weight) ==
    LET max_year == MaxOf({YearOrDefault(docs[i]) : i \in DOMAIN docs})
        base(doc) == IF doc.adjusted = <<>> THEN doc.score ELSE doc.adjusted[1]
        scored ==
            [i \in DOMAIN docs |->
                [docs[i] EXCEPT !.adjusted =
                    <<base(docs[i])
                        + YearBonus(YearOrDefault(docs[i]), max_year, year_weight)>>]]
    IN IF docs = <<>>
       THEN [docs |-> docs, ranked |-> <<>>, raised |-> FALSE]
       ELSE IF \E i \in DOMAIN docs : docs[i].year.k = "None"
       THEN [docs |-> docs, ranked |-> <<>>, raised |-> TRUE]
       ELSE [docs |-> scored, ranked |-> SortByAdjustedDesc(scored), raised |-> FALSE]

\* rerank_by_year(docs, year_weight): docs is the caller's list after the call
\* (the dicts are written in place), ranked the list returned.  A year of None
\* makes max() or "max_year > 1900" raise TypeError before any dict is written.
rerank_by_year(docs, year_weight) ==
    LET max_year == MaxOf({YearOrDefault(docs[i]) : i \in DOMAIN docs})
        scored ==
            [i \in DOMAIN docs |->
                [docs[i] EXCEPT !.adjusted =
                    <<docs[i].score
                        + YearBonus(YearOrDefault(docs[i]), max_year, year_weight)>>]]
    IN IF docs = <<>>
       THEN [docs |-> docs, ranked |-> <<>>, raised |-> FALSE]
       ELSE IF \E i \in DOMAIN docs : docs[i].year.k = "None"
       THEN [docs |-> docs, ranked |-> <<>>, raised |-> TRUE]
       ELSE [docs |-> scored, ranked |-> SortByAdjustedDesc(scored), raised |-> FALSE]

InitRank ==
    /\ retriever_built = FALSE
    /\ use_fallback = FALSE
    /\ fallback_articles = <<>>
    /\ fallback_embeddings = <<>>
    /\ tfidf_ready = FALSE
    /\ call = NoCall
    /\ response = NoResponse
    /\ \E docs \in SeqsUpTo(RankDocs, MaxDocs), year_weight \in YearWeights :
        rank = [NoRank EXCEPT !.docs = docs, !.year_weight = year_weight]
    /\ GraphIdle
    /\ SingletonsIdle
    /\ StoresIdle

\* one call rerank_by_year(docs, year_weight) on the caller's list
Rerank ==
    /\ rank.applied < MaxRerank /\ ~rank.raised
    /\ LET r == rerank_by_year(rank.docs, rank.year_weight)
       IN rank' = [rank EXCEPT !.applied = @ + 1, !.docs = r.docs,
                               !.ranked = r.ranked, !.raised = r.raised]
    /\ UNCHANGED <<retrieverVars, call, response, graphVars, singletonVars, ingestVars>>

NextRank == Rerank

SpecRank == InitRank /\ [][NextRank]_vars

----------------------------------------------------------------------------
(* agent/pipeline.py: AgentPipeline.answer *)

\* build_fallback_prompt(question): the fixed no-results text around the question
build_fallback_prompt(question) == [kind |-> "no_results", question |-> question]

\* article.title and the other attribute reads of answer: the records that
\* Retriever.retrieve returns are dicts, which have no such attribute
HasAttributes(articles) == FALSE

\* AgentPipeline.answer, steps 2 to 5, for a non-empty list: the context of each
\* article, _synthesize (which returns a fixed apology when the LLM call
\* raises), the sources and the top article, all in the order retrieve gave
answer_with_articles(question, articles, synth_raises) ==
    IF ~HasAttributes(articles)
    THEN [NoResponse EXCEPT !.stages = <<"retrieve">>, !.raised = TRUE]
    ELSE [NoResponse EXCEPT
            !.stages = <<"retrieve", "synthesize", "assemble">>,
            !.synth_docs = Take([i \in DOMAIN articles |-> articles[i].id], 5),
            !.answer = [kind |-> IF synth_raises THEN "apology" ELSE "synthesized",
                        question |-> question],
            !.sources = [i \in DOMAIN articles |-> articles[i].id],
            !.article = <<articles[1].id>>]

\* AgentPipeline.answer after self.retriever.retrieve returned c.results.  stages
\* lists the calls made; rerank_by_year is not among the calls of answer.
answer_no_empty_check(question, c, synth_raises) ==
    IF c.results = <<>>
    THEN [NoResponse EXCEPT
            !.stages = <<"retrieve", "synthesize">>,
            !.answer = [kind |-> IF synth_raises THEN "apology" ELSE "synthesized",
                        question |-> question],
            !.raised = TRUE]
    ELSE answer_with_articles(question, c.results, synth_raises)

answer(question, c, synth_raises) ==
    IF c.results = <<>>
    THEN [NoResponse EXCEPT
            !.stages = <<"retrieve", "build_fallback_prompt">>,
            !.answer = build_fallback_prompt(question)]
    ELSE answer_with_articles(question, c.results, synth_raises)

AnswerRedis ==
    /\ retriever_built /\ ~use_fallback /\ response = NoResponse
    /\ \E question \in Questions, top_k \in 1..MaxTopK, embed_raises \in BOOLEAN,
          vec \in VecOutcomes, txt \in TxtOutcomes, synth_raises \in BOOLEAN :
        /\ embed_raises => (vec.docs = <<>> /\ txt.docs = <<>>)
        /\ \E order \in OrdersOf(AllIds(vec.docs, txt.docs)) :
            LET c == retrieve(question, top_k, embed_raises, vec, txt, order, "none")
            IN /\ call' = c
               /\ response' = answer(question, c, synth_raises)
    /\ UNCHANGED <<retrieverVars, rank, graphVars, singletonVars, ingestVars>>

AnswerFallback ==
    /\ retriever_built /\ use_fallback /\ response = NoResponse
    /\ \E question \in Questions, top_k \in 1..MaxTopK, fail \in FallbackFailures,
          synth_raises \in BOOLEAN :
        LET c == retrieve(question, top_k, FALSE,
                          [raises |-> FALSE, docs |-> <<>>],
                          [raises |-> FALSE, docs |-> <<>>], <<>>, fail)
        IN /\ call' = c
           /\ response' = answer(question, c, synth_raises)
           /\ fallback_articles' =
                  fallback_articles_after(fallback_articles, fallback_embeddings,
                                          question, fail)
    /\ UNCHANGED <<retriever_built, use_fallback, fallback_embeddings, tfidf_ready,
                   rank, graphVars, singletonVars, ingestVars>>

\* the chat endpoint sends the response (or the HTTP 500 of an exception)
Respond ==
    /\ response # NoResponse
    /\ response' = NoResponse
    /\ call' = NoCall
    /\ UNCHANGED <<retrieverVars, rank, graphVars, singletonVars, ingestVars>>

NextPipeline == GetRetriever \/ AnswerRedis \/ AnswerFallback \/ Respond

SpecPipeline == Init /\ [][NextPipeline]_vars

----------------------------------------------------------------------------
(* build_knowledge_graph.py: build_graph and save_graph, step by step *)

InitGraph ==
    /\ retriever_built = FALSE
    /\ use_fallback = FALSE
    /\ fallback_articles = <<>>
    /\ fallback_embeddings = <<>>
    /\ tfidf_ready = FALSE
    /\ call = NoCall
    /\ response = NoResponse
    /\ rank = NoRank
    /\ collection \in Corpora
    /\ builder = NewBuilder
    /\ build = NoBuild
    /\ files = <<>>
    /\ service = NoService
    /\ SingletonsIdle
    /\ StoresIdle

\* build_graph returns self.kg
BuildReturns(b, kg) ==
    [b EXCEPT !.pc = "built", !.builds = @ + 1, !.graphs = Append(@, kg)]

\* ArticleGraphBuilder.build_graph up to its loop: count_documents, and
\* "return self.kg" at once for an empty collection.  The builder keeps the
\* graph of its earlier calls.
BuildGraph ==
    /\ build.pc \in {"idle", "built", "saved"}
    /\ build.builds < MaxBuilds
    /\ build' = IF Len(collection) = 0
                THEN BuildReturns(build, builder.kg)
                ELSE [build EXCEPT !.pc = "processing", !.cursor = 0]
    /\ UNCHANGED <<retrieverVars, call, response, rank, collection, builder,
                   files, service, singletonVars, ingestVars>>

\* one turn of "for article in self.collection.find()", and the return after
\* the last one
ProcessArticle ==
    /\ build.pc = "processing"
    /\ LET article == collection[build.cursor + 1]
           b == process_article(builder, article)
           stepped ==
               [build EXCEPT !.cursor = @ + 1,
                             !.processed = IF article.experiment_id = <<>> THEN @
                                           ELSE Append(@, article)]
       IN /\ builder' = b
          /\ build' = IF build.cursor + 1 = Len(collection)
                      THEN BuildReturns(stepped, b.kg)
                      ELSE stepped
    /\ UNCHANGED <<retrieverVars, call, response, rank, collection, files,
                   service, singletonVars, ingestVars>>

\* KnowledgeGraph.save, first step: open(path, 'wb') creates the .gpickle file
\* of this run, empty, as the newest file of graphs/
SaveOpen ==
    /\ build.pc = "built"
    /\ files' = Append(files, [graph |-> builder.kg, written |-> "empty"])
    /\ build' = [build EXCEPT !.pc = "pickle_open"]
    /\ UNCHANGED <<retrieverVars, call, response, rank, collection, builder,
                   service, singletonVars, ingestVars>>

\* pickle.dump has flushed a part of the graph to the file
SaveDump ==
    /\ build.pc = "pickle_open"
    /\ files' = [files EXCEPT ![Len(files)].written = "partial"]
    /\ build' = [build EXCEPT !.pc = "pickle_partial"]
    /\ UNCHANGED <<retrieverVars, call, response, rank, collection, builder,
                   service, singletonVars, ingestVars>>

\* pickle.dump has written the last byte and the with block closed the file;
\* save_graph goes on to the JSON and statistics files and returns
SaveClose ==
    /\ build.pc = "pickle_partial"
    /\ files' = [files EXCEPT ![Len(files)].written = "complete"]
    /\ build' = [build EXCEPT !.pc = "saved"]
    /\ UNCHANGED <<retrieverVars, call, response, rank, collection, builder,
                   service, singletonVars, ingestVars>>

NextGraph == BuildGraph \/ ProcessArticle \/ SaveOpen \/ SaveDump \/ SaveClose

SpecGraph == InitGraph /\ [][NextGraph]_vars

----------------------------------------------------------------------------
(* services/graph_service.py: GraphService *)

\* GraphService.__init__ with graph_path None and GRAPH_PATH unset: the newest
\* *.gpickle of graphs/ (max by st_mtime, the last of fs) is loaded; FileNotFoundError without one, and pickle.load raises on a
\* file whose dump has not finished
graph_service_init(fs) ==
    IF Len(fs) = 0
    THEN [NoService EXCEPT !.status = "not_found"]
    ELSE IF fs[Len(fs)].written # "complete"
    THEN [NoService EXCEPT !.status = "load_error"]
    ELSE [NoService EXCEPT !.status = "loaded", !.graph = fs[Len(fs)].graph]

\* the rounds of get_neighbors_subgraph: nodes_to_include and current_level
\* after "rounds" more turns of the loop
RECURSIVE ExpandLevels(_, _, _, _)
ExpandLevels(g, nodes_to_include, current_level, rounds) ==
    IF rounds = 0 THEN nodes_to_include
    ELSE LET next_level == UNION {Neighbors(g, n) : n \in current_level}
         IN ExpandLevels(g, nodes_to_include \cup next_level, next_level, rounds - 1)

\* what a query returns: the ids of vis_nodes in order, and vis_edges
VisNodes(sub) == [i \in DOMAIN sub.nodes |-> sub.nodes[i].id]
VisEdges(sub) == {[from |-> e.u, to |-> e.v, value |-> e.weight] : e \in sub.edges}

\* GraphService.get_neighbors_subgraph: raised models the ValueError of an
\* unknown node id
get_neighbors_subgraph(g, node_id, max_depth) ==
    IF node_id \notin NodeIds(g)
    THEN [NoView EXCEPT !.op = "neighbors", !.args = <<node_id, max_depth>>,
                        !.raised = TRUE]
    ELSE LET sub == Subgraph(g, ExpandLevels(g, {node_id}, {node_id}, max_depth))
         IN [op |-> "neighbors", args |-> <<node_id, max_depth>>, raised |-> FALSE,
             nodes |-> VisNodes(sub), edges |-> VisEdges(sub)]

\* the filters of get_graph_data on one node; "", <<>> and 0 model an argument
\* that is None (or falsy, which the code treats alike)
PassesFilters(g, nd, node_type, experiment_id, min_degree) ==
    /\ node_type # "" => nd.type = node_type
    /\ experiment_id # <<>> => experiment_id \in Range(nd.experiment_ids)
    /\ min_degree # 0 => Degree(g, nd.id) >= min_degree

\* filtered_nodes.sort(key=lambda n: graph.degree(n), reverse=True): stable
RECURSIVE SortByDegreeDesc(_, _)
SortByDegreeDesc(g, ids) ==
    IF ids = <<>> THEN <<>>
    ELSE LET rest == SortByDegreeDesc(g, SubSeq(ids, 1, Len(ids) - 1))
             x == ids[Len(ids)]
             k == Cardinality({i \in DOMAIN rest :
                                  Degree(g, rest[i]) >= Degree(g, x)})
         IN SubSeq(rest, 1, k) \o <<x>> \o SubSeq(rest, k + 1, Len(rest))

\* filtered_nodes of get_graph_data before the limit
FilteredNodes(g, node_type, experiment_id, min_degree) ==
    VisNodes([nodes |-> SelectSeq(g.nodes,
                 LAMBDA nd : PassesFilters(g, nd, node_type, experiment_id,
                                           min_degree))])

\* get_graph_data cutting filtered_nodes to the limit without sorting them
get_graph_data_unsorted(g, node_type, limit, experiment_id, min_degree) ==
    LET filtered_nodes == FilteredNodes(g, node_type, experiment_id, min_degree)
        kept == IF limit # 0 /\ Len(filtered_nodes) > limit
                THEN Take(filtered_nodes, limit)
                ELSE filtered_nodes
        sub == Subgraph(g, Range(kept))
    IN [op |-> "graph_data", args |-> <<node_type, limit, experiment_id, min_degree>>,
        raised |-> FALSE, nodes |-> VisNodes(sub), edges |-> VisEdges(sub)]

\* GraphService.get_graph_data
get_graph_data(g, node_type, limit, experiment_id, min_degree) ==
    LET filtered_nodes == FilteredNodes(g, node_type, experiment_id, min_degree)
        kept == IF limit # 0 /\ Len(filtered_nodes) > limit
                THEN Take(SortByDegreeDesc(g, filtered_nodes), limit)
                ELSE filtered_nodes
        sub == Subgraph(g, Range(kept))
    IN [op |-> "graph_data", args |-> <<node_type, limit, experiment_id, min_degree>>,
        raised |-> FALSE, nodes |-> VisNodes(sub), edges |-> VisEdges(sub)]

----------------------------------------------------------------------------
(* The graph endpoints as a state machine: routers/graph.py creates one
   GraphService per request *)

\* deepest neighbourhood asked for
MaxDepth == 2
\* largest limit asked for
MaxLimit == 2

\* the collections the snapshots served are built from: authors and journals
ServiceArticlesAt(i) ==
    {a \in ArticlesAt(i) : /\ a.experiment_id # <<>>
                           /\ a.institutions = <<>> /\ a.organisms = <<>>}
RECURSIVE ServiceCorporaOf(_)
ServiceCorporaOf(n) ==
    IF n = 0 THEN {<<>>}
    ELSE {Append(c, a) : c \in ServiceCorporaOf(n - 1), a \in ServiceArticlesAt(n)}
ServiceCorpora == UNION {ServiceCorporaOf(n) : n \in 0..MaxArticles}

\* the .gpickle file a finished run of build_graph and save_graph leaves
SnapshotOf(articles) ==
    [graph |-> ProcessAll(NewBuilder, articles).kg, written |-> "complete"]

\* a vertex id no article mentions
AbsentVertex == VertexId("author", <<"N", "o">>)

\* the arguments of the queries
NodeTypes == {"", "author", "journal"}
ExperimentFilters == {<<>>, ExperimentId(1)}
MinDegrees == {0, 1, 2}

\* the API process serves the snapshot of an earlier run over the collection
InitService ==
    /\ retriever_built = FALSE
    /\ use_fallback = FALSE
    /\ fallback_articles = <<>>
    /\ fallback_embeddings = <<>>
    /\ tfidf_ready = FALSE
    /\ call = NoCall
    /\ response = NoResponse
    /\ rank = NoRank
    /\ collection \in ServiceCorpora
    /\ builder = NewBuilder
    /\ build = NoBuild
    /\ files = <<SnapshotOf(collection)>>
    /\ service = NoService
    /\ SingletonsIdle
    /\ StoresIdle

\* service = GraphService() at the start of a request
NewGraphService ==
    /\ service = NoService
    /\ service' = [graph_service_init(files) EXCEPT
                      !.during = build.pc,
                      !.snapshots = Cardinality({i \in DOMAIN files :
                                                    files[i].written = "complete"})]
    /\ UNCHANGED <<retrieverVars, call, response, rank, collection, builder,
                   build, files, singletonVars, ingestVars>>

\* GET /graph/node/{node_id}/neighbors
GetNeighborsSubgraph ==
    /\ service.status = "loaded" /\ service.view = NoView
    /\ \E node_id \in NodeIds(service.graph) \cup {AbsentVertex},
          max_depth \in 0..MaxDepth :
        service' = [service EXCEPT !.view =
                       get_neighbors_subgraph(service.graph, node_id, max_depth)]
    /\ UNCHANGED <<retrieverVars, call, response, rank, collection, builder,
                   build, files, singletonVars, ingestVars>>

\* GET /graph
GetGraphData ==
    /\ service.status = "loaded" /\ service.view = NoView
    /\ \E node_type \in NodeTypes, limit \in 0..MaxLimit,
          experiment_id \in ExperimentFilters, min_degree \in MinDegrees :
        service' = [service EXCEPT !.view =
                       get_graph_data(service.graph, node_type, limit,
                                      experiment_id, min_degree)]
    /\ UNCHANGED <<retrieverVars, call, response, rank, collection, builder,
                   build, files, singletonVars, ingestVars>>

\* the request ends (with the data, or with the HTTP error of what was raised)
\* and its GraphService is dropped
Reply ==
    /\ service # NoService
    /\ service' = NoService
    /\ UNCHANGED <<retrieverVars, call, response, rank, collection, builder,
                   build, files, singletonVars, ingestVars>>

NextService == NewGraphService \/ GetNeighborsSubgraph \/ GetGraphData \/ Reply

SpecService == InitService /\ [][NextService]_vars

\* the snapshots an earlier run may have left in graphs/ when the collection
\* held its first k documents
PreviousFiles(articles) ==
    {<<>>} \cup {<<SnapshotOf(SubSeq(articles, 1, k))>> : k \in 0..Len(articles)}

\* a build runs while the API process serves requests
InitSnapshot ==
    /\ retriever_built = FALSE
    /\ use_fallback = FALSE
    /\ fallback_articles = <<>>
    /\ fallback_embeddings = <<>>
    /\ tfidf_ready = FALSE
    /\ call = NoCall
    /\ response = NoResponse
    /\ rank = NoRank
    /\ collection \in ServiceCorpora
    /\ builder = NewBuilder
    /\ build = NoBuild
    /\ files \in PreviousFiles(collection)
    /\ service = NoService
    /\ SingletonsIdle
    /\ StoresIdle

NextSnapshot ==
    \/ BuildGraph \/ ProcessArticle \/ SaveOpen \/ SaveDump \/ SaveClose
    \/ NewGraphService \/ Reply

SpecSnapshot == InitSnapshot /\ [][NextSnapshot]_vars

----------------------------------------------------------------------------
(* deps.py, pipeline.py, retriever.py: the lazily built singletons, resolved
   by concurrent requests (FastAPI runs the plain function
   get_pipeline_dependency in its thread pool) *)

\* get_pipeline: "if _pipeline is None"; an existing pipeline is returned as is
GetPipeline ==
    \E r \in DOMAIN requests :
        /\ requests[r].pc = "start"
        /\ requests' =
              [requests EXCEPT ![r] =
                  IF singletons.pipeline = 0
                  THEN [@ EXCEPT !.pc = "pipeline_init"]
                  ELSE [pc |-> "ready", pipeline |-> singletons.pipeline,
                        retriever |-> singletons.pipeline_retriever]]
        /\ UNCHANGED <<retrieverVars, call, response, rank, graphVars, singletons, ingestVars>>

\* AgentPipeline.__init__ calls get_retriever: "if _retriever is None"
CheckRetriever ==
    \E r \in DOMAIN requests :
        /\ requests[r].pc = "pipeline_init"
        /\ requests' =
              [requests EXCEPT ![r].pc =
                  IF singletons.retriever = 0 THEN "retriever_init"
                  ELSE "retriever_return"]
        /\ UNCHANGED <<retrieverVars, call, response, rank, graphVars, singletons, ingestVars>>

\* "_retriever = Retriever()": the constructor probes Redis and, in fallback
\* mode, loads the corpus, the embedding matrix and the TF-IDF index; the
\* global then names the new instance
ConstructRetriever ==
    \E r \in DOMAIN requests :
        /\ requests[r].pc = "retriever_init"
        /\ \E connected \in BOOLEAN, samples \in SeqsUpTo(Articles, MaxCorpus),
              batch_raises \in BOOLEAN :
            LET articles == load_articles(samples, batch_raises)
            IN /\ use_fallback' = ~connected
               /\ fallback_articles' = IF connected THEN <<>> ELSE articles
               /\ fallback_embeddings' =
                      IF connected THEN <<>> ELSE load_embeddings(articles)
               /\ tfidf_ready' = IF connected THEN FALSE ELSE load_tfidf(articles)
        /\ retriever_built' = TRUE
        /\ singletons' = [singletons EXCEPT
                             !.retrievers_built = @ + 1,
                             !.retriever = singletons.retrievers_built + 1]
        /\ requests' = [requests EXCEPT ![r].pc = "retriever_return"]
        /\ UNCHANGED <<call, response, rank, graphVars, ingestVars>>

\* "return _retriever", and the rest of AgentPipeline.__init__ followed by
\* "_pipeline = AgentPipeline()"
ConstructPipeline ==
    \E r \in DOMAIN requests :
        /\ requests[r].pc = "retriever_return"
        /\ singletons' = [singletons EXCEPT
                             !.pipelines_built = @ + 1,
                             !.pipeline = singletons.pipelines_built + 1,
                             !.pipeline_retriever = singletons.retriever]
        /\ requests' = [requests EXCEPT ![r].pc = "pipeline_return"]
        /\ UNCHANGED <<retrieverVars, call, response, rank, graphVars, ingestVars>>

\* "return _pipeline": the request handler gets the pipeline the global names
ReturnPipeline ==
    \E r \in DOMAIN requests :
        /\ requests[r].pc = "pipeline_return"
        /\ requests' = [requests EXCEPT ![r] =
                           [pc |-> "ready", pipeline |-> singletons.pipeline,
                            retriever |-> singletons.pipeline_retriever]]
        /\ UNCHANGED <<retrieverVars, call, response, rank, graphVars, singletons, ingestVars>>

NextSingletons ==
    \/ GetPipeline \/ CheckRetriever \/ ConstructRetriever
    \/ ConstructPipeline \/ ReturnPipeline

SpecSingletons == Init /\ [][NextSingletons]_vars

----------------------------------------------------------------------------
(* Ingestion as a state machine: the enrichment pipeline and the batch
   scripts hand article after article to the managers *)

Logged(op, article, raised) == [op |-> op, article |-> article, raised |-> raised]

\* EnrichmentPipeline.process_article, step 6: self.db_manager.save_article(article)
SaveArticle ==
    /\ Len(stores.log) < MaxIngests
    /\ \E article \in ArticleRecords :
        stores' = [stores EXCEPT
            !.experiments = save_article(@, article, stores.now + 1),
            !.now = @ + 1,
            !.log = Append(@, Logged("save_article", article, FALSE))]
    /\ UNCHANGED <<retrieverVars, call, response, rank, graphVars, singletonVars>>

\* MongoDataManager.add_document(document)
MongoAddDocument ==
    /\ Len(stores.log) < MaxIngests
    /\ \E document \in ArticleRecords :
        LET r == mongo_add_document(stores.articles, document)
        IN stores' = [stores EXCEPT
              !.articles = r.coll,
              !.log = Append(@, Logged("mongo_add_document", document, r.raised))]
    /\ UNCHANGED <<retrieverVars, call, response, rank, graphVars, singletonVars>>

\* VectorDBManager.add_document(document, text) with the abstract of an article
AddDocument ==
    /\ Len(stores.log) < MaxIngests
    /\ \E article \in ArticleRecords :
        /\ article.abstract # ""
        /\ stores' = [stores EXCEPT
              !.chroma = add_document(@, article.abstract),
              !.log = Append(@, Logged("add_document", article, FALSE))]
    /\ UNCHANGED <<retrieverVars, call, response, rank, graphVars, singletonVars>>

\* proccess_batch.main: db.add_document_id(document=abstract, text=..., doc_id=doc_id)
\* for an article with an abstract
AddDocumentId ==
    /\ Len(stores.log) < MaxIngests
    /\ \E article \in ArticleRecords :
        /\ article.abstract # ""
        /\ stores' = [stores EXCEPT
              !.chroma = add_document_id(@, article.abstract, article.experiment_id),
              !.log = Append(@, Logged("add_document_id", article, FALSE))]
    /\ UNCHANGED <<retrieverVars, call, response, rank, graphVars, singletonVars>>

NextIngest == SaveArticle \/ MongoAddDocument \/ AddDocument \/ AddDocumentId

SpecIngest == Init /\ [][NextIngest]_vars

----------------------------------------------------------------------------
(* Properties of Retriever.retrieve, checked under Spec *)

Called == call.tiers # <<>>
ResultIds == {call.results[i].id : i \in DOMAIN call.results}
NothingRaised == ~call.embed_failed /\ ~call.vec_failed /\ ~call.txt_failed

\* C1: in both tiers the list retrieve returns is sorted by non-increasing
\* score: results[i].score >= results[i+1].score for every adjacent pair.
C1_SortedByScore ==
    \A i \in DOMAIN call.results :
        i < Len(call.results) => call.results[i].score >= call.results[i + 1].score

C1_Witness ==
    /\ call.tiers = <<"redis">>
    /\ Len(call.results) >= 2
    /\ call.results[1].score > call.results[2].score
    /\ call.vector_results # <<>>
    /\ call.vector_results[1].id = call.results[2].id

\* the ids seen in the vector result or in the text result of the call, and
\* the hybrid score of one of them: the score the tier's blending gives it, and
\* 0.7 * 0 + 0.3 * txt for an id that the fallback tier saw only in the text result
CandidateIds == AllIds(call.vector_results, call.text_results)
CandidateScore(id) ==
    IF call.tiers = <<"redis">>
    THEN LET all == combine_scores(call.vector_results, call.text_results, Alpha,
                        CHOOSE o \in OrdersOf(CandidateIds) : TRUE)
         IN all[CHOOSE i \in DOMAIN all : all[i].id = id].score
    ELSE IF \E i \in DOMAIN call.vector_results : call.vector_results[i].id = id
    THEN LET all == fallback_blend(call.vector_results, call.text_results)
         IN all[FirstIdx(all, id)].score
    ELSE (3 * call.text_results[LastIdx(call.text_results, id)].score) \div 10

\* C2: retrieve returns at most top_k candidates; with more than top_k distinct
\* candidates it returns exactly top_k, and no omitted candidate has a strictly
\* higher hybrid score than a returned one.  (Stated for the calls in which
\* nothing raised.)
C2_TopKHighest ==
    (Called /\ NothingRaised) =>
        /\ Len(call.results) <= call.top_k
        /\ Cardinality(CandidateIds) > call.top_k =>
            /\ Len(call.results) = call.top_k
            /\ \A id \in CandidateIds \ ResultIds :
                \A i \in DOMAIN call.results :
                    call.results[i].score >= CandidateScore(id)

\* C3: no id appears twice in the list retrieve returns, in either tier.
C3_NoDuplicateIds ==
    \A i, j \in DOMAIN call.results :
        i # j => call.results[i].id # call.results[j].id

\* C4: every hybrid score lies in [0, 1], in both tiers; when all vector
\* distances of the batch are equal every normalized similarity is 1.0 (so a
\* returned vector candidate scores at least alpha) and nothing is raised.
C4_ScoresInUnitInterval ==
    /\ \A i \in DOMAIN call.results :
        call.results[i].score >= 0 /\ call.results[i].score <= Unit
    /\ (/\ call.tiers = <<"redis">>
        /\ call.vector_results # <<>>
        /\ \A i, j \in DOMAIN call.vector_results :
              call.vector_results[i].score = call.vector_results[j].score)
       => /\ ~call.raised
          /\ call.results # <<>>
          /\ \A i \in DOMAIN call.results :
                (\E j \in DOMAIN call.vector_results :
                    call.vector_results[j].id = call.results[i].id)
                => call.results[i].score >= Alpha

\* C5: an exception raised while querying one backend of a tier counts as zero
\* results from that backend only: the call still returns the candidates of the
\* other backend of the tier.
C5_OneBackendFailureIsolated ==
    /\ (call.tiers = <<"redis">> /\ call.vec_failed /\ call.text_results # <<>>)
       => call.results # <<>>
    /\ (call.tiers = <<"redis">> /\ call.txt_failed /\ call.vector_results # <<>>)
       => call.results # <<>>
    /\ (call.tiers = <<"fallback">> /\ call.vec_failed /\ tfidf_ready)
       => call.results # <<>>
    /\ (call.tiers = <<"fallback">> /\ call.txt_failed /\ call.vector_results # <<>>)
       => call.results # <<>>

C7_FallsThroughToFallback ==
    (Called /\ call.tiers[1] = "redis" /\ call.vec_failed /\ call.txt_failed)
        => call.tiers = <<"redis", "fallback">>

VecComponents(id) ==
    LET mine == {i \in DOMAIN call.vector_results : call.vector_results[i].id = id}
        raw == {call.vector_results[i].score : i \in DOMAIN call.vector_results}
    IN IF mine = {} THEN {0}
       ELSE IF call.tiers = <<"redis">>
       THEN {Normalize(call.vector_results[i].score, MinOf(raw), MaxOf(raw)) : i \in mine}
       ELSE {call.vector_results[i].score : i \in mine}
TxtComponents(id) ==
    LET mine == {i \in DOMAIN call.text_results : call.text_results[i].id = id}
    IN IF mine = {} THEN {0}
       ELSE IF call.tiers = <<"redis">> THEN {TextPresenceScore}
       ELSE {call.text_results[i].score : i \in mine}

\* C23: score blending is the same in both tiers: the candidates are the union
\* of the ids of the vector result and of the text result, a candidate missing
\* from one result contributes 0 for that component and is not excluded, and
\* its score is alpha * vecScore + (1 - alpha) * txtScore with alpha = 0.7.
\* (Stated for the calls in which nothing raised.)
C23_SameBlendInBothTiers ==
    (Called /\ NothingRaised) =>
        /\ ResultIds \subseteq CandidateIds
        /\ Cardinality(CandidateIds) <= call.top_k => ResultIds = CandidateIds
        /\ \A i \in DOMAIN call.results :
              \E v \in VecComponents(call.results[i].id),
                 t \in TxtComponents(call.results[i].id) :
                  call.results[i].score = HybridScore(Alpha, v, t)

\* position of an id in the candidate order of the vector search: its first
\* place in the vector result, and behind all of them, by its first place in
\* the text result, an id the vector search did not return
VectorPosition(id) ==
    IF \E i \in DOMAIN call.vector_results : call.vector_results[i].id = id
    THEN FirstIdx(call.vector_results, id)
    ELSE Len(call.vector_results) + FirstIdx(call.text_results, id)

\* C24: candidates with equal hybrid score are ordered by their position in
\* the vector-search result, so the order combine_scores returns is a function
\* of its inputs.
C24_TiesByVectorPosition ==
    (call.tiers = <<"redis">> /\ NothingRaised) =>
        \A i, j \in DOMAIN call.results :
            (i < j /\ call.results[i].score = call.results[j].score)
                => VectorPosition(call.results[i].id) < VectorPosition(call.results[j].id)

\* C29: in the in-memory tier the embedding matrix has one row per cached
\* article, row i being the embedding of cached article i, and the vector score
\* of the i-th scored article is the cosine similarity of the question with
\* that article's own embedding; also for a corpus loaded with articles that
\* miss their embedding while the batch generation failed.
C29_RowPerArticle ==
    (retriever_built /\ use_fallback /\ fallback_embeddings # <<>>) =>
        /\ Len(fallback_embeddings) = Len(fallback_articles)
        /\ \A i \in DOMAIN fallback_articles :
               fallback_embeddings[i] = fallback_articles[i].embedding
        /\ (call # NoCall /\ call.tiers = <<"fallback">>) =>
               \A i \in DOMAIN call.vector_results :
                   /\ call.vector_results[i].id = fallback_articles[i].id
                   /\ fallback_articles[i].embedding # NoEmbedding
                   /\ call.vector_results[i].score =
                          CosSim(Embed(call.question), fallback_articles[i].embedding)

----------------------------------------------------------------------------
(* Properties of AgentPipeline.answer, checked under SpecPipeline *)

Answered == response.stages # <<>>

\* C8: when retrieval yields no candidates, answer returns sources = [],
\* article = null and the templated no-results answer for the question, without
\* calling synthesis and without raising.
C8_NoResultsAnswer ==
    (Answered /\ call.results = <<>>) =>
        /\ response.sources = <<>>
        /\ response.article = <<>>
        /\ response.answer.kind = "no_results"
        /\ response.answer.question = call.question
        /\ \A i \in DOMAIN response.stages : response.stages[i] # "synthesize"
        /\ ~response.raised

C8_Witness ==
    /\ Answered
    /\ call.tiers = <<"redis">> /\ NothingRaised
    /\ call.vector_results = <<>> /\ call.text_results = <<>>
    /\ response.answer.kind = "no_results"

\* the ids of the retrieved list in the order rerank_by_year(results) gives
RerankedIds ==
    LET docs == [i \in DOMAIN call.results |->
                    [id |-> call.results[i].id, score |-> call.results[i].score,
                     year |-> call.results[i].year, adjusted |-> <<>>]]
        ranked == rerank_by_year(docs, DefaultYearWeight).ranked
    IN [i \in DOMAIN ranked |-> ranked[i].id]

\* C9: every answered question goes through retrieve, rerank, synthesize,
\* assemble in this order, and the documents given to synthesis, the sources
\* and the top article follow the adjusted-score order of rerank_by_year.
C9_RerankBeforeSynthesis ==
    (Answered /\ call.results # <<>>) =>
        /\ response.stages = <<"retrieve", "rerank", "synthesize", "assemble">>
        /\ response.synth_docs = Take(RerankedIds, 5)
        /\ response.sources = RerankedIds
        /\ response.article = <<RerankedIds[1]>>

----------------------------------------------------------------------------
(* Properties of rerank_by_year, checked under SpecRank *)

\* C10: the recency bonus is never negative, so adjusted_score >= score for
\* every candidate, and a year below 1900 gets a bonus of exactly 0.
C10_BonusNeverNegative ==
    (rank.applied > 0 /\ ~rank.raised) =>
        \A i \in DOMAIN rank.docs :
            /\ rank.docs[i].adjusted[1] >= rank.docs[i].score
            /\ YearOrDefault(rank.docs[i]) < 1900
               => rank.docs[i].adjusted[1] = rank.docs[i].score

\* a second (or later) application of rerank_by_year to the same list
Reapplied == rank.applied >= 1 /\ rank'.applied = rank.applied + 1

\* some candidate of the list got a non-zero bonus from the last application
SomeBonus == \E i \in DOMAIN rank.docs : rank.docs[i].adjusted[1] # rank.docs[i].score

\* C11 as stated: with a non-zero year_weight a second application
\* double-counts the bonus, so the adjusted scores differ from those of a single
\* application; with year_weight = 0 a second application changes nothing.
C11_ReapplyDoubleCounts ==
    [][Reapplied =>
          /\ (rank.year_weight # 0 /\ SomeBonus) => rank'.docs # rank.docs
          /\ rank.year_weight = 0
             => (rank'.docs = rank.docs /\ rank'.ranked = rank.ranked)]_vars

\* C11 (amended): rerank_by_year is idempotent for every year_weight: a second
\* application recomputes adjusted_score from the unchanged score, so it raises
\* nothing and leaves every adjusted score and the returned order as they were.
C11_ReapplyIdempotent ==
    [][Reapplied =>
          /\ ~rank'.raised
          /\ rank'.docs = rank.docs
          /\ rank'.ranked = rank.ranked]_vars

\* rerank_by_year was applied twice with a non-zero weight to a list of two
\* candidates, one of which got a bonus
C11_Witness ==
    /\ rank.applied = 2 /\ rank.year_weight # 0 /\ ~rank.raised
    /\ Len(rank.docs) = 2 /\ SomeBonus

\* the known years of the list, and the bonus the formula gives a candidate
KnownYears == {rank.docs[i].year.v : i \in {j \in DOMAIN rank.docs : rank.docs[j].year.k = "int"}}
FormulaBonus(doc) ==
    IF doc.year.k = "int" /\ MaxOf(KnownYears) > 1900
    THEN ((doc.year.v - 1900) * rank.year_weight) \div (MaxOf(KnownYears) - 1900)
    ELSE 0

\* C25: for a non-empty list rerank_by_year sets adjusted_score = score + bonus
\* for every candidate, with bonus = (year - 1900) / (maxYear - 1900) *
\* year_weight when the candidate's year is known and maxYear > 1900, and
\* bonus = 0 when its year is unknown (missing or null) or maxYear <= 1900,
\* maxYear being the largest known year of the list.
C25_AdjustedScoreFormula ==
    (rank.applied > 0 /\ rank.docs # <<>>) =>
        /\ ~rank.raised
        /\ \A i \in DOMAIN rank.docs :
              rank.docs[i].adjusted = <<rank.docs[i].score + FormulaBonus(rank.docs[i])>>

\* C26: rerank_by_year returns the candidates sorted by non-increasing
\* adjusted_score, and candidates with equal adjusted_score keep the relative
\* order they had in the input list.
C26_SortedStable ==
    (rank.applied > 0 /\ ~rank.raised) =>
        /\ Len(rank.ranked) = Len(rank.docs)
        /\ \A i \in DOMAIN rank.ranked :
              i < Len(rank.ranked)
                  => rank.ranked[i].adjusted[1] >= rank.ranked[i + 1].adjusted[1]
        /\ \E p \in [DOMAIN rank.ranked -> DOMAIN rank.docs] :
              /\ \A a \in DOMAIN rank.ranked : rank.ranked[a] = rank.docs[p[a]]
              /\ \A a, b \in DOMAIN rank.ranked :
                    /\ a # b => p[a] # p[b]
                    /\ (a < b /\ rank.ranked[a].adjusted[1] = rank.ranked[b].adjusted[1])
                       => p[a] < p[b]

\* two candidates of different ids got the same adjusted score, with a bonus
C26_Witness ==
    /\ rank.applied > 0 /\ ~rank.raised
    /\ \E a, b \in DOMAIN rank.docs :
          /\ a < b
          /\ rank.docs[a].id # rank.docs[b].id
          /\ rank.docs[a].adjusted = rank.docs[b].adjusted
          /\ rank.docs[a].adjusted # <<rank.docs[a].score>>

\* C27: rerank_by_year is a pure function of its input list: the input list and
\* every input candidate record are the same after the call as before it.
C27_InputUntouched ==
    [][rank'.applied = rank.applied + 1 => rank'.docs = rank.docs]_vars

----------------------------------------------------------------------------
(* Properties of the graph build, checked under SpecGraph *)

\* the distinct entities an article mentions, as vertex ids
Mentioned(article) == Range(ArticleVertices(article))

\* the weights of the edges of the builder's graph
Weights == {e.weight : e \in builder.kg.edges}

\* the first article build_graph processed mentions exactly 3 entities and the
\* second exactly 2 of those 3, and nothing else was processed
CliqueThenPair ==
    /\ Len(build.processed) = 2
    /\ Cardinality(Mentioned(build.processed[1])) = 3
    /\ Cardinality(Mentioned(build.processed[2])) = 2
    /\ Mentioned(build.processed[2]) \subseteq Mentioned(build.processed[1])

\* C12: one processed article that mentions n distinct entities gives n vertices
\* and exactly n(n-1)/2 edges, each of weight 1; after an article {A,B,C} and
\* an article {A,B}, edge (A,B) has weight 2 and (A,C), (B,C) keep weight 1.
C12_CliquePerArticle ==
    /\ Len(build.processed) = 1 =>
          LET n == Cardinality(Mentioned(build.processed[1]))
          IN /\ NodeIds(builder.kg) = Mentioned(build.processed[1])
             /\ 2 * Cardinality(builder.kg.edges) = n * (n - 1)
             /\ Weights \subseteq {1}
    /\ CliqueThenPair =>
          \A u, v \in Mentioned(build.processed[1]) :
              u # v => EdgeWeight(builder.kg, u, v) =
                          IF {u, v} = Mentioned(build.processed[2]) THEN 2 ELSE 1

\* the experiment ids of the processed articles that mention both u and v
CoOccurrences(u, v) ==
    {build.processed[i].experiment_id :
        i \in {j \in DOMAIN build.processed :
                  {u, v} \subseteq Mentioned(build.processed[j])}}

\* at most one edge joins an unordered vertex pair, and the weight of a pair is
\* the number of distinct articles that mention both
C13_State ==
    /\ \A e1, e2 \in builder.kg.edges : Joins(e1, e2.u, e2.v) => e1 = e2
    /\ \A u, v \in NodeIds(builder.kg) :
          u # v => EdgeWeight(builder.kg, u, v) = Cardinality(CoOccurrences(u, v))

\* no step lowers the weight of a pair
C13_Step ==
    \A u, v \in NodeIds(builder.kg) :
        EdgeWeight(builder'.kg, u, v) >= EdgeWeight(builder.kg, u, v)

\* C13: after any sequence of processed articles there is at most one edge per
\* unordered vertex pair, its weight never decreases, and it equals the number
\* of distinct articles in which both endpoints are mentioned.
C13_WeightCountsArticles == []C13_State /\ [][C13_Step]_vars

\* C14: no edge of the graph joins a vertex to itself, whatever the articles
\* processed (repeated mentions of one entity within an article included).
C14_NoSelfPair == \A e \in builder.kg.edges : e.u # e.v

\* the mentions of the processed articles in the order _process_article saw
\* them, each with the experiment id of its article
RECURSIVE Sightings(_)
Sightings(articles) ==
    IF articles = <<>> THEN <<>>
    ELSE LET a == Head(articles)
             ms == Mentions(a)
         IN [i \in DOMAIN ms |->
                [id |-> VertexId(ms[i].type, ms[i].name), type |-> ms[i].type,
                 name |-> ms[i].name, experiment_id |-> a.experiment_id]]
            \o Sightings(Tail(articles))

\* a sequence without a repeated element
NoRepeats(s) == \A i, j \in DOMAIN s : s[i] = s[j] => i = j

\* every identifier sighted has exactly one vertex, which carries the type and
\* the name of its first sighting and the experiment ids of all its sightings,
\* none of them twice
C15_State ==
    LET seen == Sightings(build.processed)
        g == builder.kg
    IN /\ NoRepeats([i \in DOMAIN g.nodes |-> g.nodes[i].id])
       /\ NodeIds(g) = {seen[i].id : i \in DOMAIN seen}
       /\ \A n \in Range(g.nodes) :
             LET mine == {i \in DOMAIN seen : seen[i].id = n.id}
                 first == seen[MinOf(mine)]
             IN /\ n.type = first.type
                /\ n.name = first.name
                /\ n.experiment_ids[1] = first.experiment_id
                /\ Range(n.experiment_ids) = {seen[i].experiment_id : i \in mine}
                /\ NoRepeats(n.experiment_ids)

\* a step keeps every vertex where it is, with its type and name, and only
\* appends to its experiment_ids
C15_Step ==
    \A i \in DOMAIN builder.kg.nodes :
        LET old == builder.kg.nodes[i]
            new == builder'.kg.nodes[i]
        IN /\ i \in DOMAIN builder'.kg.nodes
           /\ new.id = old.id /\ new.type = old.type /\ new.name = old.name
           /\ Len(new.experiment_ids) >= Len(old.experiment_ids)
           /\ SubSeq(new.experiment_ids, 1, Len(old.experiment_ids))
                  = old.experiment_ids

\* C15: a vertex is created at most once per identifier and keeps its
\* first-seen type and display name; a later sighting only appends the
\* experiment id, and only when it is not a member yet, so experiment_ids never
\* shrinks and never holds a duplicate.
C15_VertexOncePerId == []C15_State /\ [][C15_Step]_vars

\* a vertex sighted under two experiment ids, first in another casing than
\* later, after the builder went through the collection a second time
C15_Witness ==
    /\ build.builds = 2
    /\ \E n \in Range(builder.kg.nodes) :
          /\ Len(n.experiment_ids) = 2
          /\ \E i \in DOMAIN Sightings(build.processed) :
                /\ Sightings(build.processed)[i].id = n.id
                /\ Sightings(build.processed)[i].name # n.name

\* C16: build_graph run twice on the same collection returns the same vertex
\* set, the same edge set and the same edge weights as the first run.
C16_BuildIdempotent ==
    Len(build.graphs) >= 2 =>
        /\ NodeIds(build.graphs[2]) = NodeIds(build.graphs[1])
        /\ build.graphs[2].edges = build.graphs[1].edges

\* C28: empty and blank mentions are skipped: a mention that is empty or only
\* whitespace creates no vertex and no edge, so no vertex whose normalized
\* name is empty (such as 'author:') ever exists.
C28_NoBlankVertex ==
    /\ \A n \in Range(builder.kg.nodes) : Len(n.id) > 2
    /\ \A e \in builder.kg.edges : Len(e.u) > 2 /\ Len(e.v) > 2

\* the experiment ids two vertices of the graph have in common
SharedExperiments(g, u, v) ==
    Range(g.nodes[NodeIndex(g, u)].experiment_ids)
        \cap Range(g.nodes[NodeIndex(g, v)].experiment_ids)

\* C30: in the graph build_graph returns, over any corpus (articles whose
\* processing raises part-way and is skipped included), every two distinct
\* vertices whose experiment_ids share an experiment id are joined by an edge,
\* and every edge joins two vertices that share at least one experiment id.
C30_EdgesMatchSharedExperiments ==
    \A k \in DOMAIN build.graphs :
        LET g == build.graphs[k]
        IN /\ \A u, v \in NodeIds(g) :
                (u # v /\ SharedExperiments(g, u, v) # {}) => has_edge(g, u, v)
           /\ \A e \in g.edges : SharedExperiments(g, e.u, e.v) # {}

----------------------------------------------------------------------------
(* Properties of GraphService, checked under SpecService *)

\* the vertices within graph distance d of v
RECURSIVE Within(_, _, _)
Within(g, v, d) ==
    IF d = 0 THEN {v}
    ELSE LET inner == Within(g, v, d - 1)
         IN inner \cup {u \in NodeIds(g) : \E w \in inner : has_edge(g, w, u)}

\* the edges of g with both endpoints in S, as the queries return them
InducedEdges(g, S) == VisEdges([edges |-> {e \in g.edges : e.u \in S /\ e.v \in S}])

\* C17: get_neighbors_subgraph(v, d) returns exactly the vertices within graph
\* distance d of v and exactly the edges of the full graph between them; for
\* d = 0 this is {v} with zero edges; for an id absent from the graph it fails
\* with the not-found error.
C17_NeighborsSubgraph ==
    service.view.op = "neighbors" =>
        LET v == service.view.args[1]
            d == service.view.args[2]
        IN IF v \notin NodeIds(service.graph)
           THEN service.view.raised
           ELSE /\ ~service.view.raised
                /\ Range(service.view.nodes) = Within(service.graph, v, d)
                /\ NoRepeats(service.view.nodes)
                /\ service.view.edges
                       = InducedEdges(service.graph, Within(service.graph, v, d))
                /\ d = 0 => (service.view.nodes = <<v>> /\ service.view.edges = {})

\* the nodes of the loaded graph that satisfy the filters of the last query
Satisfying ==
    {nd.id : nd \in {x \in Range(service.graph.nodes) :
                        PassesFilters(service.graph, x, service.view.args[1],
                                      service.view.args[3], service.view.args[4])}}

----------------------------------------------------------------------------
(* Properties of a build beside the API process, checked under SpecSnapshot *)

\* build_graph or save_graph is running
BuildRunning == {"processing", "built", "pickle_open", "pickle_partial"}

\* C20: a GraphService created while build_graph and save_graph run, with a
\* complete snapshot of an earlier run in graphs/, loads a complete snapshot
\* (the previous one or the new one), never a partially written file.
C20_NoPartialSnapshot ==
    (service.status # "none" /\ service.during \in BuildRunning
                             /\ service.snapshots >= 1) =>
        /\ service.status = "loaded"
        /\ \E i \in DOMAIN files :
              files[i].written = "complete" /\ files[i].graph = service.graph

----------------------------------------------------------------------------
(* Properties of the singletons, checked under SpecSingletons *)

\* C19: when several requests trigger first use concurrently, the retriever
\* with its fallback caches and the pipeline are built exactly once, and every
\* request is handed that one instance.
C19_BuiltOnce ==
    /\ singletons.retrievers_built <= 1
    /\ singletons.pipelines_built <= 1
    /\ \A r1, r2 \in DOMAIN requests :
          (requests[r1].pc = "ready" /\ requests[r2].pc = "ready") =>
              /\ requests[r1].pipeline = requests[r2].pipeline
              /\ requests[r1].retriever = requests[r2].retriever

----------------------------------------------------------------------------
(* Properties of ingestion, checked under SpecIngest *)

\* the successful calls of these operations with this key, in the order made
IngestedBy(ops, experiment_id) ==
    SelectSeq(stores.log,
              LAMBDA l : /\ l.op \in ops
                         /\ ~l.raised
                         /\ l.article.experiment_id = experiment_id)

\* C21: ingesting an ArticleRecord is an idempotent upsert keyed on
\* experiment_id in the document store and in the vector store: once a record
\* of a key was ingested, each store it went to holds exactly one entry of that
\* key, with the content of the last ingestion.
C21_IdempotentUpsert ==
    \A experiment_id \in {ExperimentId(1), ExperimentId(2)} :
        LET saved == IngestedBy({"save_article"}, experiment_id)
            embedded == IngestedBy({"mongo_add_document"}, experiment_id)
            indexed == IngestedBy({"add_document", "add_document_id"}, experiment_id)
            in_experiments ==
                {i \in DOMAIN stores.experiments :
                    stores.experiments[i].experiment_id = experiment_id}
            in_articles ==
                {i \in DOMAIN stores.articles :
                    stores.articles[i].experiment_id = experiment_id}
            in_chroma ==
                {i \in DOMAIN stores.chroma : stores.chroma[i].id = experiment_id}
        IN /\ saved # <<>> =>
                /\ Cardinality(in_experiments) = 1
                /\ \A i \in in_experiments :
                      stores.experiments[i].abstract = saved[Len(saved)].article.abstract
           /\ embedded # <<>> =>
                /\ Cardinality(in_articles) = 1
                /\ \A i \in in_articles :
                      stores.articles[i].abstract = embedded[Len(embedded)].article.abstract
           /\ indexed # <<>> =>
                /\ Cardinality(in_chroma) = 1
                /\ \A i \in in_chroma :
                      stores.chroma[i].document = indexed[Len(indexed)].article.abstract

====
